---- MODULE Spec2Model ----
\* Model of napalm's EOSDriver configuration life cycle (src/napalm/eos.py):
\* load_replace_candidate, load_merge_candidate, compare_config, commit_config,
\* discard_config and rollback, run against an abstract Arista EOS device that
\* interprets the command lists the driver sends through pyEOS.
EXTENDS Integers, Sequences, FiniteSets, TLC

\* ------------------------------------------------------------------ bounds
MaxLen == 1        \* lines of a candidate text
MaxClock == 2      \* last instant of the wall clock
MaxCommits == 2    \* commits explored on one candidate list before it is staged again
MaxTextLen == 3    \* lines of a candidate text where only staging and commit are explored

\* ------------------------------------------------------------- vocabulary
\* Python's None; '%s' % None names the session "None", here the name -1.
None == -1

\* datetime.now() is finer than the second strftime's %s prints: instants per second.
TicksPerSecond == 2

ValidLines == {"a"}                           \* configuration statements the device accepts
Lines == ValidLines \cup {"bad", "end", ""}   \* "bad" is rejected by the device, "" is blank
LineOrder == <<"a">>                          \* order in which the device prints its configuration

\* A command string: its fixed text and the session name formatted into it.
Text(l) == [s |-> l, n |-> None]
Open(name) == [s |-> "configure session", n |-> name]
ShowDiffs(name) == [s |-> "show session-config diffs", n |-> name]
End == Text("end")
Abort == Text("abort")
Commit == Text("commit")
CopySnapshot == Text("copy startup-config flash:rollback-0")
WriteMemory == Text("write memory")
ReplaceFromSnapshot == Text("configure replace flash:rollback-0")
ReplaceTerminal == Text("configure replace terminal: force")

Candidates == UNION {[1..n -> Lines] : n \in 0..MaxLen}
Texts == UNION {[1..n -> Lines] : n \in 0..MaxTextLen}
ReplaceTexts == {<<>>, <<"a">>, <<"bad">>}      \* full configurations given to load_replace_candidate
Configs == SUBSET ValidLines

NoExc == [type |-> "", message |-> ""]
NoDiff == [add |-> {}, del |-> {}]

VARIABLES
    config_replace,            \* self.config_replace
    candidate_configuration,   \* self.candidate_configuration, a list of command strings
    config_session,            \* self.config_session, None or a session name
    candidate,                 \* the candidate text pyEOS holds (self.device)
    running,                   \* device: running-config, a set of statements
    startup,                   \* device: startup-config
    rollback0,                 \* device: flash:rollback-0, <<>> when the file is missing
    sessions,                  \* device: pending configuration sessions, name -> session-config
    now,                       \* wall clock, in instants
    sent,                      \* commands sent to the device by the last call
    rejected,                  \* the rejection messages the device answered the last call with
    last,                      \* the last call: what it was and how it ended
    prev                       \* the call before the last

vars == <<config_replace, candidate_configuration, config_session, candidate,
          running, startup, rollback0, sessions, now, sent, rejected, last, prev>>

\* ------------------------------------------------------------ list helpers
RECURSIVE IndexOf(_, _, _)
\* list.index: position of the first x in s at or after i, 0 when absent
IndexOf(s, x, i) ==
    IF i > Len(s) THEN 0
    ELSE IF s[i] = x THEN i
    ELSE IndexOf(s, x, i + 1)

\* "if x in s: s.remove(x)": drops the first occurrence only
RemoveFirst(s, x) ==
    LET i == IndexOf(s, x, 1)
    IN  IF i = 0 THEN s
        ELSE SubSeq(s, 1, i - 1) \o SubSeq(s, i + 1, Len(s))

Has(s, x) == \E i \in 1..Len(s) : s[i] = x
Count(s, x) == Cardinality({i \in 1..Len(s) : s[i] = x})
IsBlank(l) == l = ""

\* ----------------------------------------------------------------- device
\* The statements a text holds, and the text the device prints for a configuration.
ConfigOf(text) == {l \in ValidLines : Has(text, Text(l))}
ConfigText(cfg) == SelectSeq([i \in 1..Len(LineOrder) |-> Text(LineOrder[i])],
                             LAMBDA c : c.s \in cfg)

\* mode: <<>> in exec mode, <<name>> inside configuration session name.
\* The device rejects a statement it cannot parse, a blank command, a configuration
\* statement or a session directive given outside a session, and a replace from a
\* file that does not exist. Exec commands (copy, write, show, end) are accepted in
\* every mode; a show of a session that does not exist answers with no difference.
Rejects(W, mode, c) ==
    \/ c.s = "bad"
    \/ c.s = ""
    \/ c.s \in ValidLines /\ mode = <<>>
    \/ c.s \in {"commit", "abort"} /\ mode = <<>>
    \/ c = ReplaceFromSnapshot /\ W.rollback0 = <<>>

SessionConfig(W, name) ==
    IF name \in DOMAIN W.sessions THEN W.sessions[name] ELSE W.running

WithSession(W, name, cfg) ==
    [W EXCEPT !.sessions = [k \in DOMAIN W.sessions \cup {name} |->
                               IF k = name THEN cfg ELSE W.sessions[k]]]

WithoutSession(W, name) ==
    [W EXCEPT !.sessions = [k \in DOMAIN W.sessions \ {name} |-> W.sessions[k]]]

\* The device after an accepted command. A session is a copy of the running
\* configuration made when it is first entered, edited by the statements given
\* inside it; commit makes it the running configuration, abort drops it.
Apply(W, mode, c) ==
    CASE c.s = "configure session" -> WithSession(W, c.n, SessionConfig(W, c.n))
      [] c.s \in ValidLines -> WithSession(W, mode[1], SessionConfig(W, mode[1]) \cup {c.s})
      [] c = Abort -> WithoutSession(W, mode[1])
      [] c = Commit -> [WithoutSession(W, mode[1]) EXCEPT !.running = SessionConfig(W, mode[1])]
      [] c = CopySnapshot -> [W EXCEPT !.rollback0 = <<W.startup>>]
      [] c = WriteMemory -> [W EXCEPT !.startup = W.running]
      [] c = ReplaceFromSnapshot -> [W EXCEPT !.running = W.rollback0[1]]
      [] OTHER -> W

ModeAfter(mode, c) ==
    CASE c.s = "configure session" -> <<c.n>>
      [] c \in {End, Abort, Commit} -> <<>>
      [] OTHER -> mode

RECURSIVE Exec(_, _, _)
\* The device runs a list in order and stops at the first command it rejects.
Exec(W, mode, cmds) ==
    IF cmds = <<>> THEN [w |-> W, exc |-> NoExc]
    ELSE LET c == Head(cmds)
         IN  IF Rejects(W, mode, c)
             THEN [w |-> [W EXCEPT !.rejected = Append(W.rejected, c.s)],
                   exc |-> [type |-> "CommandError", message |-> c.s]]
             ELSE Exec(Apply(W, mode, c), ModeAfter(mode, c), Tail(cmds))

\* ------------------------------------------------------------------ pyEOS
run_commands(W, commands) ==
    Exec([W EXCEPT !.sent = W.sent \o commands], <<>>, commands)

get_config(W) == ConfigText(W.running)

load_candidate_config(W, text) ==
    [w |-> [W EXCEPT !.candidate = text], exc |-> NoExc]

replace_config(W) ==
    LET W1 == [W EXCEPT !.sent = Append(W.sent, ReplaceTerminal)]
    IN  IF Has(W.candidate, Text("bad"))
        THEN [w |-> [W1 EXCEPT !.rejected = Append(W.rejected, "bad")],
              exc |-> [type |-> "ConfigReplaceError", message |-> "bad"]]
        ELSE [w |-> [W1 EXCEPT !.running = ConfigOf(W.candidate)], exc |-> NoExc]

\* ----------------------------------------------------------------- driver
\* The driver and the device as one record, so that a method is a function of it.
World ==
    [config_replace |-> config_replace,
     candidate_configuration |-> candidate_configuration,
     config_session |-> config_session,
     candidate |-> candidate,
     running |-> running, startup |-> startup, rollback0 |-> rollback0,
     sessions |-> sessions,
     sent |-> <<>>, rejected |-> <<>>]

\* datetime.now().strftime('%Y%m%d-%H%m%s'): %s is the epoch second, so the name
\* is a one-to-one function of the second the instant t falls in.
SessionName(t) == t \div TicksPerSecond

load_and_test_config(W, config, t) ==
    LET split == [i \in 1..Len(config) |-> Text(config[i])]
        clean_candidate == SelectSeq(split, LAMBDA c : ~IsBlank(c.s))
        test_config == RemoveFirst(clean_candidate, End)
        name == SessionName(t)
        W1 == [W EXCEPT !.candidate_configuration = clean_candidate,
                        !.config_session = name]
    IN  run_commands(W1, <<Open(name)>> \o test_config \o <<End>>)

\* load_replace_candidate that applies the text at once instead of staging it
load_replace_candidate_applying(W, config) ==
    replace_config(load_candidate_config([W EXCEPT !.config_replace = TRUE],
                                         [i \in 1..Len(config) |-> Text(config[i])]).w)

load_replace_candidate(W, config) ==
    load_candidate_config([W EXCEPT !.config_replace = TRUE],
                          [i \in 1..Len(config) |-> Text(config[i])])

\* discard_config that reloads the candidate only when no session was held
discard_config_no_resync(W) ==
    IF W.config_session # None
    THEN LET r == run_commands(W, <<Open(W.config_session), Abort>>)
         IN  IF r.exc # NoExc THEN r
             ELSE [w |-> [r.w EXCEPT !.config_session = None], exc |-> NoExc]
    ELSE load_candidate_config(W, get_config(W))

discard_config(W) ==
    IF W.config_session # None
    THEN LET r == run_commands(W, <<Open(W.config_session), Abort>>)
         IN  IF r.exc # NoExc THEN r
             ELSE load_candidate_config([r.w EXCEPT !.config_session = None],
                                        get_config(r.w))
    ELSE load_candidate_config(W, get_config(W))

\* load_merge_candidate that sets config_replace = False before the test-apply
load_merge_candidate_flag_first(W, config, t) ==
    LET r == load_and_test_config([W EXCEPT !.config_replace = FALSE], config, t)
    IN  IF r.exc = NoExc
        THEN r
        ELSE LET d == discard_config(r.w)
             IN  IF d.exc # NoExc THEN d
                 ELSE [w |-> d.w,
                       exc |-> [type |-> "MergeConfigException",
                                message |-> r.exc.message]]

\* load_merge_candidate whose except branch raises without calling discard_config
load_merge_candidate_no_discard(W, config, t) ==
    LET r == load_and_test_config(W, config, t)
    IN  IF r.exc = NoExc
        THEN [w |-> [r.w EXCEPT !.config_replace = FALSE], exc |-> NoExc]
        ELSE [w |-> r.w,
              exc |-> [type |-> "MergeConfigException", message |-> r.exc.message]]

load_merge_candidate(W, config, t) ==
    LET r == load_and_test_config(W, config, t)
    IN  IF r.exc = NoExc
        THEN [w |-> [r.w EXCEPT !.config_replace = FALSE], exc |-> NoExc]
        ELSE LET d == discard_config(r.w)
             IN  IF d.exc # NoExc THEN d
                 ELSE [w |-> d.w,
                       exc |-> [type |-> "MergeConfigException",
                                message |-> r.exc.message]]

\* what compare_config returns: the statements the candidate adds and deletes
Diff(cfg, W) == [add |-> cfg \ W.running, del |-> W.running \ cfg]

compare_config(W) ==
    IF W.config_replace
    THEN [w |-> W, exc |-> NoExc]
    ELSE run_commands(W, <<ShowDiffs(W.config_session)>>)

compare_output(W) ==
    IF W.config_replace
    THEN Diff(ConfigOf(W.candidate), W)
    ELSE Diff(SessionConfig(W, W.config_session), W)

\* _commit_replace that takes the snapshot before replacing
commit_replace_snapshotting(W) ==
    LET s == run_commands(W, <<CopySnapshot>>)
        r == replace_config(s.w)
    IN  IF r.exc = NoExc THEN r
        ELSE [w |-> r.w,
              exc |-> [type |-> "ReplaceConfigException", message |-> r.exc.message]]

commit_replace(W) ==
    LET r == replace_config(W)
    IN  IF r.exc = NoExc THEN r
        ELSE [w |-> r.w,
              exc |-> [type |-> "ReplaceConfigException", message |-> r.exc.message]]

commit_merge(W) ==
    LET inserted == <<Open(W.config_session), CopySnapshot>> \o W.candidate_configuration
        commands == Append(RemoveFirst(inserted, End), Commit)
    IN  run_commands([W EXCEPT !.candidate_configuration = commands], commands)

\* commit_config that persists whether or not the commit path raised
commit_config_always_persist(W) ==
    LET r == IF W.config_replace THEN commit_replace(W) ELSE commit_merge(W)
    IN  [w |-> run_commands(r.w, <<WriteMemory>>).w, exc |-> r.exc]

commit_config(W) ==
    LET r == IF W.config_replace THEN commit_replace(W) ELSE commit_merge(W)
    IN  IF r.exc # NoExc THEN r
        ELSE run_commands(r.w, <<WriteMemory>>)

rollback(W) ==
    LET r1 == run_commands(W, <<ReplaceFromSnapshot>>)
        r2 == run_commands(r1.w, <<WriteMemory>>)
    IN  IF r1.exc # NoExc THEN r1
        ELSE IF r2.exc # NoExc THEN r2
        ELSE load_candidate_config(r2.w, get_config(r2.w))

\* ---------------------------------------------------------------- actions
\* The configuration statements among the strings of a candidate list.
CandidateLines(list) == {list[i] : i \in {j \in 1..Len(list) : list[j].s \in ValidLines \cup {"bad"}}}

\* The specification's view of the Candidate Store after the last call: filled by
\* a staging call, emptied by discard, by a failed staging and by a successful commit.
Staged ==
    CASE last.op = "load_replace_candidate" -> TRUE
      [] last.op = "load_merge_candidate" -> last.ok
      [] last.op = "discard_config" -> FALSE
      [] last.op = "commit_config" -> last.staged /\ ~last.ok
      [] last.op = "init" -> FALSE
      [] OTHER -> last.staged

\* One call of a public method: the world it leaves and the record of the call.
\* last.running and last.staged are the running configuration and the state of the
\* Candidate Store the call found, last.name the session name it generated,
\* last.lines the statements of the candidate it staged or discarded.
Call(op, r, name, lines, out) ==
    /\ config_replace' = r.w.config_replace
    /\ candidate_configuration' = r.w.candidate_configuration
    /\ config_session' = r.w.config_session
    /\ candidate' = r.w.candidate
    /\ running' = r.w.running
    /\ startup' = r.w.startup
    /\ rollback0' = r.w.rollback0
    /\ sessions' = r.w.sessions
    /\ sent' = r.w.sent
    /\ rejected' = r.w.rejected
    /\ last' = [op |-> op, ok |-> r.exc = NoExc, exc |-> r.exc, name |-> name,
                staged |-> Staged, lines |-> lines, out |-> out, running |-> running]
    /\ prev' = [op |-> last.op, ok |-> last.ok]
    /\ UNCHANGED now

StageReplace ==
    \E config \in ReplaceTexts :
        Call("load_replace_candidate", load_replace_candidate(World, config),
             None, {}, NoDiff)

StageMerge ==
    \E config \in Candidates :
        LET r == load_merge_candidate(World, config, now)
        IN  Call("load_merge_candidate", r, SessionName(now),
                 CandidateLines(r.w.candidate_configuration), NoDiff)

\* load_merge_candidate given a longer text
StageMergeText ==
    \E config \in Texts :
        LET r == load_merge_candidate(World, config, now)
        IN  Call("load_merge_candidate", r, SessionName(now),
                 CandidateLines(r.w.candidate_configuration), NoDiff)

CompareConfig ==
    LET r == compare_config(World)
    IN  Call("compare_config", r, None, {},
             IF r.exc = NoExc THEN compare_output(World) ELSE NoDiff)

CommitConfig ==
    /\ Count(candidate_configuration, Commit) < MaxCommits
    /\ Call("commit_config", commit_config(World), None, {}, NoDiff)

DiscardConfig ==
    Call("discard_config", discard_config(World), None,
         CandidateLines(candidate_configuration), NoDiff)

Rollback ==
    Call("rollback", rollback(World), None, {}, NoDiff)

\* time passes on the wall clock
Tick ==
    /\ now < MaxClock
    /\ now' = now + 1
    /\ UNCHANGED <<config_replace, candidate_configuration, config_session, candidate,
                   running, startup, rollback0, sessions, sent, rejected, last, prev>>

\* __init__, against a device found in any state with no session pending
Init ==
    /\ config_replace = FALSE
    /\ candidate_configuration = <<>>
    /\ config_session = None
    /\ candidate = <<>>
    /\ running \in Configs
    /\ startup \in Configs
    /\ rollback0 = <<>>
    /\ sessions = <<>>
    /\ now = 0
    /\ sent = <<>>
    /\ rejected = <<>>
    /\ last = [op |-> "init", ok |-> TRUE, exc |-> NoExc, name |-> None,
               staged |-> FALSE, lines |-> {}, out |-> NoDiff, running |-> running]
    /\ prev = [op |-> "init", ok |-> TRUE]

Next ==
    \/ StageReplace
    \/ StageMerge
    \/ CompareConfig
    \/ CommitConfig
    \/ DiscardConfig
    \/ Rollback
    \/ Tick

Spec == Init /\ [][Next]_vars

\* The command lists built from longer candidate texts: staging and commit alone.
NextText ==
    \/ StageMergeText
    \/ CommitConfig

SpecText == Init /\ [][NextText]_vars

\* ----------------------------------------------------------------- claims
Merge == "load_merge_candidate"
Replace == "load_replace_candidate"

\* C1: a successful load_merge_candidate followed directly by discard_config leaves
\* the running configuration as the load found it and no session pending on the device.
C1_MergeThenDiscard ==
    [][(last.op = Merge /\ last.ok /\ last'.op = "discard_config")
        => (running' = last.running /\ DOMAIN sessions' = {})]_vars

\* C2: after a successful merge commit of a staged candidate the snapshot slot holds
\* the running configuration the commit found, and a rollback called next makes the
\* running configuration equal to it.
C2_SnapshotIsPreCommitRunning ==
    (last.op = "commit_config" /\ last.ok /\ ~config_replace
     /\ prev.op = Merge /\ prev.ok)
        => /\ rollback0 = <<last.running>>
           /\ rollback(World).exc = NoExc
           /\ rollback(World).w.running = last.running

\* C3: when load_merge_candidate is called while the session of an earlier successful
\* load_merge_candidate is outstanding, at most one session is pending on the device
\* afterwards.
C3_AtMostOneSession ==
    (last.op = Merge /\ prev.op = Merge /\ prev.ok)
        => Cardinality(DOMAIN sessions) <= 1

\* C4: commit_config called with nothing staged fails with a precondition error and
\* sends no command to the device.
C4_CommitOnEmptyStore ==
    (last.op = "commit_config" /\ ~last.staged)
        => (~last.ok /\ last.exc.type = "PreconditionError" /\ sent = <<>>)

\* C5: a commit_config called directly after a discard (explicit, or implied by a
\* rejected load_merge_candidate) sends none of the discarded candidate's statements.
C5_NoStaleLinesAfterDiscard ==
    [][((last.op = "discard_config" \/ (last.op = Merge /\ ~last.ok))
        /\ last'.op = "commit_config")
        => \A c \in last.lines : ~Has(sent', c)]_vars

\* C6: a load_merge_candidate the device rejects ends with a MergeConfigException
\* carrying the device's rejection message, with the session it opened aborted, no
\* session identifier held by the driver and the running configuration unchanged.
C6_RejectedMerge ==
    (last.op = Merge /\ ~last.ok)
        => /\ rejected # <<>>
           /\ last.exc = [type |-> "MergeConfigException", message |-> rejected[1]]
           /\ last.name \notin DOMAIN sessions
           /\ config_session = None
           /\ running = last.running

C6_Witness ==
    /\ last.op = Merge /\ ~last.ok
    /\ Has(sent, Open(last.name)) /\ Has(sent, Text("bad")) /\ Has(sent, Abort)

\* C7: after a successful commit_config of a staged candidate the candidate list is
\* empty and the driver holds no session identifier.
C7_ClearedAfterCommit ==
    (last.op = "commit_config" /\ last.ok /\ last.staged)
        => (candidate_configuration = <<>> /\ config_session = None)

\* C8: the session identifier is absent whenever the mode is REPLACE.
C8_SessionOnlyInMergeMode ==
    config_replace => config_session = None

\* C9: two load_merge_candidate calls with no other call between them obtain
\* different session names.
C9_DistinctSessionNames ==
    [][(last.op = Merge /\ last.ok /\ StageMerge) => last'.name # last.name]_vars

\* C10: load_replace_candidate, and a compare_config called directly after it, leave
\* the running configuration as they found it.
C10_ReplaceThenDiffKeepsRunning ==
    /\ last.op = Replace => running = last.running
    /\ (last.op = "compare_config" /\ prev.op = Replace) => running = last.running

C10_Witness ==
    /\ last.op = "compare_config" /\ last.ok /\ prev.op = Replace
    /\ config_replace /\ last.out # NoDiff

\* C11: commit_config sends 'write memory' exactly when the device rejected nothing
\* of the commit path, as the last command; a rejected replace surfaces as
\* ReplaceConfigException and a rejected merge sequence as the channel's
\* CommandError, each carrying the device's message.
C11_PersistIffCommitted ==
    last.op = "commit_config"
        => /\ (rejected = <<>>) <=> Has(sent, WriteMemory)
           /\ rejected = <<>> => (last.ok /\ sent[Len(sent)] = WriteMemory
                                  /\ Count(sent, WriteMemory) = 1)
           /\ rejected # <<>>
                => last.exc = [type |-> IF config_replace THEN "ReplaceConfigException"
                                        ELSE "CommandError",
                               message |-> rejected[1]]

C11_Witness ==
    /\ last.op = "commit_config" /\ last.ok /\ last.staged
    /\ Has(sent, Text("a")) /\ sent[Len(sent)] = WriteMemory /\ startup = {"a"}

\* C12: in the sequence of a merge commit the snapshot command comes before the
\* session-open directive, which comes before the candidate's statements, which come
\* before the commit directive.
C12_SnapshotBeforeSessionOpen ==
    (last.op = "commit_config" /\ ~config_replace /\ prev.op = Merge /\ prev.ok)
        => LET snapshot == IndexOf(sent, CopySnapshot, 1)
               open == IndexOf(sent, Open(config_session), 1)
               commit == IndexOf(sent, Commit, 1)
           IN  /\ 0 < snapshot /\ snapshot < open /\ open < commit
               /\ \A i \in 1..Len(sent) :
                      sent[i] \in CandidateLines(sent) => (open < i /\ i < commit)

\* C13: when the device rejects a command of the merge sequence, commit_config sends
\* nothing after that sequence and raises the channel's error, the snapshot slot
\* holds the running configuration the commit found, and a rollback called next
\* makes the running configuration equal to it.
C13_FailedMergeCommit ==
    (last.op = "commit_config" /\ ~config_replace /\ ~last.ok)
        => /\ sent = candidate_configuration
           /\ last.exc.type = "CommandError"
           /\ rollback0 = <<last.running>>
           /\ rollback(World).exc = NoExc
           /\ rollback(World).w.running = last.running

\* C14: the session-diff query compare_config sends in MERGE mode names a session
\* that is pending on the device.
C14_DiffNamesActiveSession ==
    (last.op = "compare_config" /\ ~config_replace)
        => \A i \in 1..Len(sent) :
               sent[i].s = "show session-config diffs" => sent[i].n \in DOMAIN sessions

\* C15: after a successful rollback the running configuration is the snapshot, it is
\* persisted, the candidate is the running configuration, and the mode is REPLACE,
\* so that a compare_config called next sends no session query and reports no
\* difference.
C15_RollbackResynchronizes ==
    (last.op = "rollback" /\ last.ok)
        => /\ running = rollback0[1] /\ startup = running
           /\ candidate = ConfigText(running)
           /\ config_replace
           /\ compare_config(World).w.sent = <<>>
           /\ compare_output(World) = NoDiff

\* the list load_merge_candidate sent for the test-apply: all it sent, less the two
\* commands of the discard_config that follows a rejection
TestApplySent == IF last.ok THEN sent ELSE SubSeq(sent, 1, Len(sent) - 2)

\* C16: the test-apply list of load_merge_candidate starts with the session-open
\* directive for the name just generated, ends with 'end', holds no blank command
\* and no other 'end'.
C16_TestApplyShape ==
    last.op = Merge
        => LET s == TestApplySent
           IN  /\ s[1] = Open(last.name)
               /\ s[Len(s)] = End
               /\ \A i \in 1..Len(s) : ~IsBlank(s[i].s)
               /\ \A i \in 2..(Len(s) - 1) : s[i] # End

\* the list _commit_merge sent: all commit_config sent, less the 'write memory'
\* that follows a successful sequence
CommitMergeSent == IF last.ok THEN SubSeq(sent, 1, Len(sent) - 1) ELSE sent

\* C17: the list of a merge commit holds exactly one session-open directive, one
\* snapshot command and one 'commit', which is its last command, and no 'end'.
C17_CommitListShape ==
    (last.op = "commit_config" /\ ~config_replace)
        => LET s == CommitMergeSent
           IN  /\ Cardinality({i \in 1..Len(s) : s[i].s = "configure session"}) = 1
               /\ Count(s, CopySnapshot) = 1
               /\ Count(s, Commit) = 1
               /\ s[Len(s)] = Commit
               /\ ~Has(s, End)

\* C18: discard_config sends the session-open and abort directives for the session
\* identifier the driver holds, and nothing when it holds none; either way the
\* identifier is None afterwards, the aborted session is gone from the device, the
\* running configuration is untouched and the candidate is its text.
C18_DiscardAbortsAndResynchronizes ==
    [][DiscardConfig
        => /\ sent' = IF config_session # None
                      THEN <<Open(config_session), Abort>> ELSE <<>>
           /\ config_session' = None
           /\ config_session # None => config_session \notin DOMAIN sessions'
           /\ running' = running
           /\ candidate' = ConfigText(running')]_vars

C18_Witness ==
    /\ last.op = "discard_config" /\ last.ok /\ prev.op = Replace
    /\ sent = <<Open(0), Abort>> /\ config_session = None
    /\ running = {"a"} /\ candidate = <<Text("a")>>

\* C19: a replace commit leaves the snapshot slot as it was, and a rollback called
\* directly after a commit makes the running configuration the content of the slot.
C19_ReplaceCommitKeepsSnapshot ==
    [][/\ (CommitConfig /\ config_replace) => rollback0' = rollback0
       /\ (last.op = "commit_config" /\ last'.op = "rollback" /\ last'.ok)
            => (rollback0' = rollback0 /\ running' = rollback0[1])]_vars

C19_Witness ==
    /\ last.op = "rollback" /\ last.ok /\ prev.op = "commit_config" /\ prev.ok
    /\ config_replace /\ running = rollback0[1] /\ running # last.running

\* C20: a load_merge_candidate the device rejects leaves the mode flag as it was, a
\* successful one sets it to MERGE, and a commit_config called directly after a
\* rejected load_merge_candidate in REPLACE mode takes the replace path.
C20_ModeKeptOnRejectedMerge ==
    [][/\ (last'.op = Merge /\ StageMerge)
            => config_replace' = IF last'.ok THEN FALSE ELSE config_replace
       /\ (last.op = Merge /\ ~last.ok /\ config_replace /\ last'.op = "commit_config")
            => (sent'[1] = ReplaceTerminal
                /\ \A i \in 1..Len(sent') : sent'[i].s # "configure session")]_vars

C20_Witness ==
    /\ last.op = "commit_config" /\ prev.op = Merge /\ ~prev.ok
    /\ config_replace /\ sent = <<ReplaceTerminal, WriteMemory>>

====
